---------------------------- MODULE Spec2Model ----------------------------
(***************************************************************************)
(* A model of the GNSS download tool: TrimbleDownload.py (the directory    *)
(* harvester get_files_from_directory, the download engine download_file   *)
(* with its file name resolver, and the main loop) and KMZ_Decode.py (the  *)
(* archive-to-table decoder parse_kmz with parse_table).                   *)
(*                                                                         *)
(* Python strings are sequences of pieces.  Everything the code slices,    *)
(* measures or tests by suffix (the hrefs of a listing page, the unit      *)
(* suffixes of a table value) is spelled character by character; a literal *)
(* the code only appends ("?format=RNX&Ver=", a RINEX version) is kept as  *)
(* one piece.                                                              *)
(***************************************************************************)
EXTENDS Integers, Sequences, FiniteSets, TLC

VARIABLES
    pc,               \* position of the program
    argv,             \* the command line and the terminal, as given
    args,             \* the parsed arguments (get_args)
    listing,          \* the receiver's listing pages: directory URL -> hrefs
    receiver,         \* the receiver's answer to a probe, and its longest body
    fs,               \* the output file system: path -> content
    http,             \* the HTTP requests issued so far, in order
    out,              \* what the program has printed, in order
    stack,            \* get_files_from_directory: the active calls
    file_urls,        \* main: the harvest result
    idx,              \* main: the for loop's position in file_urls
    numberDownloads,  \* main: numberDownloads
    processed,        \* main: the URLs download_file returned for, in order
    dl,               \* download_file: parameters and locals of the call
    kz                \* parse_kmz: parameters and locals of the call

vars == <<pc, argv, args, listing, receiver, fs, http, out, stack, file_urls, idx,
          numberDownloads, processed, dl, kz>>

----------------------------------------------------------------------------
(* Strings *)

None == "None"

EndsWith(s, suf) ==
    /\ Len(s) >= Len(suf)
    /\ SubSeq(s, Len(s) - Len(suf) + 1, Len(s)) = suf

Contains(s, sub) ==
    \E i \in 1..(Len(s) - Len(sub) + 1) : SubSeq(s, i, i + Len(sub) - 1) = sub

\* the positions of piece c in s
Positions(s, c) == {i \in 1..Len(s) : s[i] = c}

Max(S) == CHOOSE x \in S : \A y \in S : y <= x

\* s.split("/")[-1]
AfterLastSlash(s) ==
    IF Positions(s, "/") = {} THEN s
    ELSE SubSeq(s, Max(Positions(s, "/")) + 1, Len(s))

\* s[:-n]
DropLast(s, n) == SubSeq(s, 1, Len(s) - n)

T02 == <<".", "T", "0", "2">>
T04 == <<".", "T", "0", "4">>

\* "http://{}:{}".format(IP, Port)
server == <<"http://gnss:80">>

\* "/download/{}".format(Base), with Base = "I"
BaseDir == <<"/", "d", "o", "w", "n", "l", "o", "a", "d", "/", "I">>

\* urllib.parse.urljoin(base, ref) for the references a listing page holds: an
\* absolute path replaces the base's path, a relative name replaces its last
\* segment.
urljoin(base, ref) ==
    IF ref # <<>> /\ ref[1] = "/" THEN ref
    ELSE IF Positions(base, "/") = {} THEN ref
    ELSE SubSeq(base, 1, Max(Positions(base, "/"))) \o ref

----------------------------------------------------------------------------
(* The receiver's file server, as the harvester sees it *)

SubDir == BaseDir \o <<"/", "s">>
SubSubDir == SubDir \o <<"/", "t">>

H_a      == BaseDir \o <<"/", "a">> \o T02            \* /download/I/a.T02
H_aq     == H_a \o <<"?", "f", "=", "x">>             \* its computed variant
H_b      == BaseDir \o <<"/", "b">> \o T04
H_c      == SubDir \o <<"/", "c">> \o T04             \* a file of the sub-directory
H_d      == SubSubDir \o <<"/", "d">> \o T02
H_parent == <<"/", "d", "o", "w", "n", "l", "o", "a", "d">>
H_rel    == <<"a">> \o T02                            \* a.T02
H_relq   == H_rel \o <<"?", "f", "o", "r", "m", "a", "t", "=", "x">>
H_sub    == <<"s", "u", "b", "/">>                    \* sub/
H_up     == <<".", ".", "/">>                         \* ../
H_both   == <<"x">> \o T02 \o <<"?", "y">> \o T04     \* x.T02?y.T04

\* The spec's example page.
ExamplePage == <<H_rel, H_relq, H_sub, H_up>>

----------------------------------------------------------------------------
(* get_files_from_directory *)

\* One active call: its directory_url, the page's links once fetched, the for
\* loop's position and the file_urls list built so far.
Frame(dir) == [dir |-> dir, got |-> FALSE, links |-> <<>>, i |-> 1, urls |-> <<>>]

Top == stack[Len(stack)]

SetTop(f) == [stack EXCEPT ![Len(stack)] = f]

\* a slip: only one of the two extensions is tracked
isTracked_T04only(file_name) == EndsWith(file_name, T04)

isTracked(file_name) == EndsWith(file_name, T02) \/ EndsWith(file_name, T04)

isComputed(file_name) ==
    Contains(file_name, T02 \o <<"?">>) \/ Contains(file_name, T04 \o <<"?">>)

\* a slip: the length test left out
isParentOrSelf_never(file_name, directory_url) == FALSE

isParentOrSelf(file_name, directory_url) == Len(file_name) <= Len(directory_url)

\* The else branch of the link tests: neither tracked, nor computed, nor a parent
\* or self link, and recursion is on.
isEntered(file_name, directory_url, recursive) ==
    /\ ~isComputed(file_name)
    /\ ~isParentOrSelf(file_name, directory_url)
    /\ recursive

\* a slip: the nested result put in front of the caller's list
extend_front(urls, more) == more \o urls

\* file_urls.extend(<nested result>)
extend(urls, more) == urls \o more

\* requests.get(server + directory_url) and the parse of the page; an unreachable
\* server or an error status raises SystemExit.
HarvestGet ==
    /\ pc = "harvest"
    /\ ~Top.got
    /\ http' = Append(http, [method |-> "GET", url |-> server \o Top.dir])
    /\ IF Top.dir \in DOMAIN listing
       THEN /\ stack' = SetTop([Top EXCEPT !.got = TRUE, !.links = listing[Top.dir]])
            /\ UNCHANGED <<pc, out>>
       ELSE /\ pc' = "exit"
            /\ out' = Append(out, "ERROR: Connect Failed")
            /\ UNCHANGED stack
    /\ UNCHANGED <<argv, args, listing, receiver, fs, file_urls, idx, numberDownloads,
                   processed, dl, kz>>

\* One iteration of "for link in links".
HarvestLink ==
    /\ pc = "harvest"
    /\ Top.got
    /\ Top.i <= Len(Top.links)
    /\ LET file_name == Top.links[Top.i]
           next == [Top EXCEPT !.i = @ + 1]
       IN  \/ /\ isTracked(file_name)
              /\ stack' = SetTop([next EXCEPT
                              !.urls = Append(@, urljoin(Top.dir, file_name))])
           \/ /\ ~isTracked(file_name)
              /\ ~isEntered(file_name, Top.dir, args.Recursive)
              /\ stack' = SetTop(next)
           \/ /\ ~isTracked(file_name)
              /\ isEntered(file_name, Top.dir, args.Recursive)
              /\ stack' = Append(SetTop(next), Frame(file_name))
    /\ UNCHANGED <<pc, argv, args, listing, receiver, fs, http, out, file_urls, idx,
                   numberDownloads, processed, dl, kz>>

\* "return file_urls": to the calling get_files_from_directory, which extends its
\* own list, or to main.
HarvestReturn ==
    /\ pc = "harvest"
    /\ Top.got
    /\ Top.i > Len(Top.links)
    /\ IF Len(stack) = 1
       THEN /\ file_urls' = Top.urls
            /\ stack' = <<>>
            /\ pc' = "found"
       ELSE /\ LET caller == stack[Len(stack) - 1]
               IN  stack' = [SubSeq(stack, 1, Len(stack) - 1) EXCEPT
                                ![Len(stack) - 1] =
                                    [caller EXCEPT !.urls = extend(@, Top.urls)]]
            /\ UNCHANGED <<file_urls, pc>>
    /\ UNCHANGED <<argv, args, listing, receiver, fs, http, out, idx, numberDownloads,
                   processed, dl, kz>>

----------------------------------------------------------------------------
(* The file system *)

isfile(path) == path \in DOMAIN fs

\* a slip: the removal left out
os_remove_nothing(f, path) == f

\* os.remove(path) on the file system f
os_remove(f, path) == [q \in DOMAIN f \ {path} |-> f[q]]

\* open(path, "wb"): the file is created, or truncated, by the caller
open_wb(f, path, who) ==
    [q \in DOMAIN f \cup {path} |-> IF q = path THEN [by |-> who, size |-> 0] ELSE f[q]]

\* file.write(data) of len(data) = n
file_write(f, path, n) == [f EXCEPT ![path].size = @ + n]

\* a file that was there before the run
OldFile == [by |-> "before", size |-> 1]

----------------------------------------------------------------------------
(* GNSSFormat, and what download_file does per format *)

GNSSFormat == {"HATANAKA", "HATANAKAZ", "KML", "KMP", "CSV", "RINEX", "RINEXZ", "T0X"}

RinexFamily == {"RINEX", "RINEXZ", "HATANAKA", "HATANAKAZ"}

allowed_versions == {"2.11", "2.12", "3.00", "3.02", "3.03", "3.04"}

os_sep == <<"/">>

\* os.path.join(download_dir, url.split("/")[-1])
path_join(download_dir, name) == download_dir \o os_sep \o name

\* the query download_file appends to download_url
query_of(outputFormat, RINEX) ==
    CASE outputFormat = "RINEX"     -> <<"?format=RNX&Ver=", RINEX>>
      [] outputFormat = "RINEXZ"    ->
            IF RINEX \in {"3.03", "3.04"}
            THEN <<"?format=Zipped-RNX-MIX&Ver=", RINEX>>
            ELSE <<"?format=Zipped-RNX&Ver=", RINEX>>
      [] outputFormat = "HATANAKA"  -> <<"?format=RNX-COMP&Ver=", RINEX>>
      [] outputFormat = "HATANAKAZ" -> <<"?format=Zipped-RNX-COMP&Ver=", RINEX>>
      [] outputFormat = "KML"       -> <<"?format=KMZ-Lines">>
      [] outputFormat \in {"KMP", "CSV"} -> <<"?format=KMZ-LinesPoints">>
      [] OTHER -> <<>>

\* the default_filepath download_file hands to the resolver (for T0X: filepath)
default_filepath(outputFormat, RINEX, filepath) ==
    CASE outputFormat = "RINEX"     -> DropLast(filepath, 3) \o <<"RNX.", RINEX, ".obs">>
      [] outputFormat = "RINEXZ"    -> DropLast(filepath, 3) \o <<"RNX.", RINEX, ".zip">>
      [] outputFormat = "HATANAKA"  -> DropLast(filepath, 3) \o <<"HATANAKA.", RINEX, ".obs">>
      [] outputFormat = "HATANAKAZ" -> DropLast(filepath, 3) \o <<"HATANAKA.", RINEX, ".zip">>
      [] outputFormat = "KML"       -> DropLast(filepath, 3) \o <<"lines.kmz">>
      [] outputFormat \in {"KMP", "CSV"} -> DropLast(filepath, 3) \o <<"kmz">>
      [] OTHER -> filepath

\* a slip: the caller's NoRename handed on for every format
NoRename_passed_on(outputFormat, NoRename) == NoRename

\* the NoRename the resolver works with: the caller's for the RINEX family, True
\* for KML, KMP and CSV; T0X does not call the resolver, which is as good as True
NoRename_for(outputFormat, NoRename) ==
    IF outputFormat \in RinexFamily THEN NoRename ELSE TRUE

\* a slip: the existence test inverted
mustDownload_inverted(skip, exists) == ~(skip /\ ~exists)

\* "not (skip and os.path.isfile(filepath))"
mustDownload(skip, exists) == ~(skip /\ exists)

----------------------------------------------------------------------------
(* filepathFrom_content_disposition *)

\* s.split(sep)[-1], sep one piece
AfterLastPiece(s, sep) ==
    IF Positions(s, sep) = {} THEN s
    ELSE SubSeq(s, Max(Positions(s, sep)) + 1, Len(s))

\* s.strip(' "')
RECURSIVE strip(_)
strip(s) ==
    IF s = <<>> THEN s
    ELSE IF s[1] \in {" ", "\""} THEN strip(Tail(s))
    ELSE IF s[Len(s)] \in {" ", "\""} THEN strip(DropLast(s, 1))
    ELSE s

\* download_dir + os.sep + content_disposition.split("filename=")[-1].strip(' "')
filepath_from_header(download_dir, content_disposition) ==
    download_dir \o os_sep \o strip(AfterLastPiece(content_disposition, "filename="))

\* a Content-Disposition header with a file name, and one without
CD_quoted == <<"attachment;", " ", "filename=", "\"", "R750_1.dat", "\"">>
CD_bare   == <<"inline">>

\* What a receiver answers to the HEAD probe: the transport fails, an error
\* status, or a reply with or without a Content-Disposition header (cd holds the
\* header, or nothing).
PlainReply == [status |-> "200", cd |-> <<>>]

HeadReplies ==
    {[status |-> "ConnectionError", cd |-> <<>>],
     [status |-> "404", cd |-> <<>>],
     [status |-> "200", cd |-> <<>>],
     [status |-> "200", cd |-> <<CD_quoted>>],
     [status |-> "200", cd |-> <<CD_bare>>]}

----------------------------------------------------------------------------
(* download_file *)

\* the longest body, in chunks of block_size bytes
MaxChunks == 2

\* a receiver: its answer to the probe, and the length of its longest body
Receiver(head, length) == [head |-> head, length |-> length]

\* no call of download_file is active
DlIdle ==
    [url |-> <<>>, download_dir |-> <<>>, outputFormat |-> "T0X", RINEX |-> None,
     skip |-> FALSE, progress |-> FALSE, NoRename |-> FALSE,
     fs0 |-> <<>>, filepath |-> <<>>, download_url |-> <<>>, total_size |-> 0,
     n |-> 0, chunks |-> 0, file |-> "none", where |-> "", exc |-> None,
     result |-> <<>>]

\* the call download_file(server, url, download_dir, outputFormat, RINEX, skip=,
\* progress=, NoRename=), with the file system as it is at the call
DlCall(url, download_dir, outputFormat, RINEX, skip, progress, NoRename, f) ==
    [DlIdle EXCEPT !.url = url, !.download_dir = download_dir,
                   !.outputFormat = outputFormat, !.RINEX = RINEX, !.skip = skip,
                   !.progress = progress, !.NoRename = NoRename, !.fs0 = f]

dl_default == default_filepath(dl.outputFormat, dl.RINEX,
                               path_join(dl.download_dir, AfterLastSlash(dl.url)))

dl_url == server \o dl.url \o query_of(dl.outputFormat, dl.RINEX)

DlRaise(where, exc) == [dl EXCEPT !.where = where, !.exc = exc]

\* Lines 208-279 when the resolver makes no request: the default name stands.
DlNameDefault ==
    /\ pc = "dl_entry"
    /\ NoRename_for(dl.outputFormat, dl.NoRename)
    /\ dl' = [dl EXCEPT !.filepath = dl_default, !.download_url = dl_url]
    /\ pc' = "dl_check"
    /\ UNCHANGED <<argv, args, listing, receiver, fs, http, out, stack, file_urls, idx,
                   numberDownloads, processed, kz>>

\* Lines 208-279 when the resolver probes the server with requests.head.
DlNameFromServer ==
    /\ pc = "dl_entry"
    /\ ~NoRename_for(dl.outputFormat, dl.NoRename)
    /\ http' = Append(http, [method |-> "HEAD", url |-> dl_url])
    /\ CASE receiver.head.status = "ConnectionError" ->
                /\ dl' = [DlRaise("head", "SystemExit") EXCEPT !.download_url = dl_url]
                /\ pc' = "dl_raised"
         [] receiver.head.status = "404" ->
                /\ dl' = [DlRaise("head", "HTTPError") EXCEPT !.download_url = dl_url]
                /\ pc' = "dl_raised"
         [] OTHER ->
                /\ dl' = [dl EXCEPT
                            !.download_url = dl_url,
                            !.filepath =
                                IF receiver.head.cd # <<>>
                                THEN filepath_from_header(dl.download_dir, receiver.head.cd[1])
                                ELSE dl_default]
                /\ pc' = "dl_check"
    /\ UNCHANGED <<argv, args, listing, receiver, fs, out, stack, file_urls, idx,
                   numberDownloads, processed, kz>>

\* Lines 284-294 and 331: the file is there and skip is set; nothing is fetched.
DlSkip ==
    /\ pc = "dl_check"
    /\ ~mustDownload(dl.skip, isfile(dl.filepath))
    /\ dl' = [dl EXCEPT !.result = dl.filepath]
    /\ pc' = "dl_returned"
    /\ UNCHANGED <<argv, args, listing, receiver, fs, http, out, stack, file_urls, idx,
                   numberDownloads, processed, kz>>

\* Lines 294-300: requests.get(download_url, stream=True), raise_for_status, and
\* the declared content-length (0 when the header is missing).
DlGet ==
    /\ pc = "dl_check"
    /\ mustDownload(dl.skip, isfile(dl.filepath))
    /\ http' = Append(http, [method |-> "GET", url |-> dl.download_url])
    /\ out' = Append(out, "Downloading")
    /\ \/ \E e \in {"ConnectionError", "HTTPError"} :
              /\ dl' = DlRaise("get", e)
              /\ pc' = "dl_raised"
       \/ \E size \in 0..receiver.length :
              /\ dl' = [dl EXCEPT !.total_size = size]
              /\ pc' = "dl_open"
    /\ UNCHANGED <<argv, args, listing, receiver, fs, stack, file_urls, idx,
                   numberDownloads, processed, kz>>

\* Lines 307 / 318: open(filepath, "wb").
DlOpen ==
    /\ pc = "dl_open"
    /\ fs' = open_wb(fs, dl.filepath, "download_file")
    /\ dl' = [dl EXCEPT !.file = "open"]
    /\ pc' = "dl_write"
    /\ UNCHANGED <<argv, args, listing, receiver, http, out, stack, file_urls, idx,
                   numberDownloads, processed, kz>>

\* Lines 307 / 318 when open raises (the directory is not writable): the handler
\* removes filepath if it is there and re-raises; os.remove of a missing file
\* raises FileNotFoundError instead.
DlOpenFails ==
    /\ pc = "dl_open"
    /\ out' = Append(out, "Aborting: Removing partial download")
    /\ fs' = os_remove(fs, dl.filepath)
    /\ dl' = DlRaise("open", IF isfile(dl.filepath) THEN "OSError" ELSE "FileNotFoundError")
    /\ pc' = "dl_raised"
    /\ UNCHANGED <<argv, args, listing, receiver, http, stack, file_urls, idx,
                   numberDownloads, processed, kz>>

\* Lines 308-310 / 319-320: one chunk of response.iter_content(block_size) is
\* counted (with progress) and written.  Sizes are counted in chunks.
DlChunk ==
    /\ pc = "dl_write"
    /\ dl.chunks < receiver.length
    /\ fs' = file_write(fs, dl.filepath, 1)
    /\ dl' = [dl EXCEPT !.chunks = @ + 1, !.n = IF dl.progress THEN @ + 1 ELSE @]
    /\ UNCHANGED <<pc, argv, args, listing, receiver, http, out, stack, file_urls, idx,
                   numberDownloads, processed, kz>>

\* Lines 312-315 / 321-324: an exception in the loop (the stream breaks, the disk
\* is full, Ctrl-C); the with statement closes the file, the handler removes it
\* and re-raises.
DlWriteFails ==
    /\ pc = "dl_write"
    /\ \E e \in {"ChunkedEncodingError", "OSError", "KeyboardInterrupt"} :
           dl' = [DlRaise("write", e) EXCEPT !.file = "closed"]
    /\ out' = Append(out, "Aborting: Removing partial download")
    /\ fs' = os_remove(fs, dl.filepath)
    /\ pc' = "dl_raised"
    /\ UNCHANGED <<argv, args, listing, receiver, http, stack, file_urls, idx,
                   numberDownloads, processed, kz>>

\* The stream ends: the file is closed; lines 326-331 compare the bytes counted
\* with the declared length when progress is on, and return filepath.
DlFinish ==
    /\ pc = "dl_write"
    /\ IF dl.progress /\ dl.total_size # 0 /\ dl.n # dl.total_size
       THEN /\ dl' = [DlRaise("check", "RuntimeError") EXCEPT !.file = "closed"]
            /\ pc' = "dl_raised"
       ELSE /\ dl' = [dl EXCEPT !.file = "closed", !.result = dl.filepath]
            /\ pc' = "dl_returned"
    /\ UNCHANGED <<argv, args, listing, receiver, fs, http, out, stack, file_urls, idx,
                   numberDownloads, processed, kz>>

download_file ==
    \/ DlNameDefault \/ DlNameFromServer \/ DlSkip \/ DlGet
    \/ DlOpen \/ DlOpenFails \/ DlChunk \/ DlWriteFails \/ DlFinish

----------------------------------------------------------------------------
(* KMZ_Decode.parse_table *)

\* The text of a table cell or of a coordinate: a decimal number, counted in
\* thousandths, followed by a unit suffix spelled character by character
\* ("123.456m" is Text(123456, <<"m">>)).
Text(num, suffix) == [num |-> num, suffix |-> suffix]

\* value.endswith(unit)
text_endswith(v, unit) == EndsWith(v.suffix, unit)

\* value[:-n]: n characters of the suffix go; with no suffix left the last
\* decimal digit goes
text_droplast(v, n) ==
    IF Len(v.suffix) >= n THEN Text(v.num, DropLast(v.suffix, n))
    ELSE Text((v.num \div 10) * 10, <<>>)

\* a dict
EmptyDict == [k \in {} |-> Text(0, <<>>)]

Put(d, key, value) == [k \in DOMAIN d \cup {key} |-> IF k = key THEN value ELSE d[k]]

\* the labels parse_table keeps
AllowList ==
    {"UTC", "Time", "Week", "Type", "Mode", "PDOP", "Corr Age", "Used", "Track",
     "East", "North", "Hgt", "Velocity", "Track Angle"}

remap(key) ==
    CASE key = "Track" -> "Tracked"
      [] key = "East"  -> "East Sigma"
      [] key = "North" -> "North Sigma"
      [] OTHER -> key

\* the loop over the rows: a row of two cells with an allowed label is kept under
\* its remapped label, or under "Up Sigma" when the label is already there
RECURSIVE table_rows(_, _, _)
table_rows(rows, k, data) ==
    IF k > Len(rows) THEN data
    ELSE LET row == rows[k]
         IN  IF row.cells = 2 /\ row.key \in AllowList
             THEN IF remap(row.key) \notin DOMAIN data
                  THEN table_rows(rows, k + 1, Put(data, remap(row.key), row.value))
                  ELSE table_rows(rows, k + 1, Put(data, "Up Sigma", row.value))
             ELSE table_rows(rows, k + 1, data)

\* "if key in data: if data[key].endswith(unit): data[key] = data[key][:-n]"
strip_unit(data, key, unit) ==
    IF key \in DOMAIN data /\ text_endswith(data[key], unit)
    THEN Put(data, key, text_droplast(data[key], Len(unit)))
    ELSE data

\* lines 106-108: the "Corr Age" strip reads data["East Sigma"]
corr_age_raises(data) ==
    /\ "Corr Age" \in DOMAIN data
    /\ text_endswith(data["Corr Age"], <<"s">>)
    /\ "East Sigma" \notin DOMAIN data

strip_corr_age(data) ==
    IF "Corr Age" \in DOMAIN data /\ text_endswith(data["Corr Age"], <<"s">>)
    THEN Put(data, "Corr Age", text_droplast(data["East Sigma"], 1))
    ELSE data

\* parse_table(html): the dict, or the exception it raises
parse_table(rows) ==
    LET d0 == table_rows(rows, 1, EmptyDict)
        d1 == strip_unit(d0, "Hgt", <<"m">>)
    IN  IF corr_age_raises(d1) THEN [raised |-> TRUE, data |-> d1]
        ELSE LET d2 == strip_corr_age(d1)
                 d3 == strip_unit(d2, "East Sigma", <<"m">>)
                 d4 == strip_unit(d3, "North Sigma", <<"m">>)
                 d5 == strip_unit(d4, "Up Sigma", <<"m">>)
                 d6 == strip_unit(d5, "Track Angle", <<"deg">>)   \* the degree sign
                 d7 == strip_unit(d6, "Velocity", <<"k", "m", "/", "h">>)
                 d8 == strip_unit(d7, "Time", <<" ", "s", "e", "c", "s">>)
             IN  [raised |-> FALSE, data |-> d8]

----------------------------------------------------------------------------
(* KMZ_Decode.parse_kmz *)

fieldnames ==
    <<"Time", "Lat", "Lon", "Hgt", "Type", "East Sigma", "North Sigma", "Up Sigma",
      "Mode", "PDOP", "Tracked", "Used", "Corr Age", "Track Angle", "Velocity",
      "Week", "UTC">>

\* csv.DictWriter.writerow(details): one cell per field name, empty (<<>>) when
\* the dict has no value for it
csv_row(details) ==
    [f \in {fieldnames[k] : k \in 1..Len(fieldnames)} |->
        IF f \in DOMAIN details THEN <<details[f]>> ELSE <<>>]

\* float(text) raises ValueError unless the text is a bare number
float_raises(v) == v.suffix # <<>>

\* float(coordinates[2]) - ARP_Offset
height_minus_offset(v, ARP_Offset) == Text(v.num - ARP_Offset, <<>>)

\* lines 216-227: the coordinates of the Point, when there are three of them,
\* give Lat, Lon and Hgt
with_coordinates(details, point, ARP_Offset) ==
    IF point # <<>> /\ Len(point[1]) = 3
    THEN Put(Put(Put(details, "Lat", point[1][1]), "Lon", point[1][2]),
             "Hgt", height_minus_offset(point[1][3], ARP_Offset))
    ELSE details

kml == <<".", "k", "m", "l">>

\* [name for name in z.namelist() if name.endswith(".kml")]
kml_files(names) == SelectSeq(names, LAMBDA name : EndsWith(name, kml))

\* os.path.dirname(kmz_file), with os.sep added when it is not empty
KMZ_dir(kmz_file) ==
    IF Positions(kmz_file, "/") = {} THEN <<>>
    ELSE SubSeq(kmz_file, 1, Max(Positions(kmz_file, "/")))

\* the path of the CSV file
csv_path(kmz_file, kml_file_name, useKMZ) ==
    IF useKMZ THEN kmz_file \o <<".csv">>
    ELSE KMZ_dir(kmz_file) \o kml_file_name \o <<".csv">>

\* no call of parse_kmz is active
KzIdle ==
    [kmz_file |-> <<>>, save_KML |-> FALSE, ARP_Offset |-> 0, useKMZ |-> TRUE,
     archive |-> [zip |-> FALSE, names |-> <<>>, wellformed |-> FALSE, placemarks |-> <<>>],
     z |-> "none", csvfile |-> "none", csv |-> <<>>, reads |-> 0, placemarks |-> <<>>,
     i |-> 1, header |-> <<>>, rows |-> <<>>, error |-> None]

\* the call parse_kmz(kmz_file, save_KML, ARP_Offset, useKMZ) on a file that
\* holds archive
KzCall(kmz_file, save_KML, ARP_Offset, useKMZ, archive) ==
    [KzIdle EXCEPT !.kmz_file = kmz_file, !.save_KML = save_KML,
                   !.ARP_Offset = ARP_Offset, !.useKMZ = useKMZ, !.archive = archive]

\* the top-level handlers of lines 232-235: the zip file is closed by its with
\* statement, the message is printed, parse_kmz returns
KzCaught(message) == [kz EXCEPT !.error = message,
                                !.z = IF @ = "open" THEN "closed" ELSE @]

\* parse_kmz returns with the locals of k: csvfile goes out of scope and no
\* statement has closed it.  Whether the handle is closed at that moment is up to
\* the interpreter: reference counting finalizes it at once, a tracing collector
\* at some later time.
Returns(k) ==
    IF k.csvfile = "open" THEN {k, [k EXCEPT !.csvfile = "finalized"]} ELSE {k}

\* Lines 148-194: open the archive, find and read the first .kml entry, save it
\* when asked, open the CSV file and write the header.
KzOpen ==
    /\ pc = "kmz_entry"
    /\ IF ~kz.archive.zip
       THEN /\ kz' = KzCaught("The file is not a valid KMZ.")
            /\ out' = Append(out, "The file is not a valid KMZ.")
            /\ pc' = "kmz_returned"
            /\ UNCHANGED fs
       ELSE IF kml_files(kz.archive.names) = <<>>
       THEN /\ kz' = [KzCaught("No KML file found in the KMZ.") EXCEPT !.z = "closed"]
            /\ out' = Append(out, "Error: No KML file found in the KMZ.")
            /\ pc' = "kmz_returned"
            /\ UNCHANGED fs
       ELSE LET kml_file_name == kml_files(kz.archive.names)[1]
                saved == IF kz.save_KML
                         THEN open_wb(fs, KMZ_dir(kz.kmz_file) \o kml_file_name, "parse_kmz")
                         ELSE fs
                path == csv_path(kz.kmz_file, kml_file_name, kz.useKMZ)
            IN  /\ fs' = open_wb(saved, path, "parse_kmz")
                /\ kz' = [kz EXCEPT !.z = "open", !.reads = @ + 1, !.csvfile = "open",
                                    !.csv = path, !.header = fieldnames]
                /\ pc' = "kmz_parse"
                /\ UNCHANGED out
    /\ UNCHANGED <<argv, args, listing, receiver, http, stack, file_urls, idx,
                   numberDownloads, processed, dl>>

\* Lines 197-203: parse the markup and select the placemarks.
KzParse ==
    /\ pc = "kmz_parse"
    /\ IF ~kz.archive.wellformed
       THEN /\ kz' \in Returns(KzCaught("ParseError"))
            /\ out' = Append(out, "Error: ParseError")
            /\ pc' = "kmz_returned"
       ELSE /\ kz' = [kz EXCEPT !.placemarks = kz.archive.placemarks]
            /\ pc' = "kmz_rows"
            /\ UNCHANGED out
    /\ UNCHANGED <<argv, args, listing, receiver, fs, http, stack, file_urls, idx,
                   numberDownloads, processed, dl>>

\* Lines 205-230: one placemark.
KzPlacemark ==
    /\ pc = "kmz_rows"
    /\ kz.i <= Len(kz.placemarks)
    /\ LET placemark == kz.placemarks[kz.i]
           table == parse_table(placemark.description[1])
           details == with_coordinates(table.data, placemark.point, kz.ARP_Offset)
       IN  IF placemark.description = <<>>
           THEN /\ kz' = [kz EXCEPT !.i = @ + 1]
                /\ UNCHANGED <<pc, out, fs>>
           ELSE IF table.raised
           THEN /\ kz' \in Returns(KzCaught("KeyError"))
                /\ out' = Append(out, "Error: 'East Sigma'")
                /\ pc' = "kmz_returned"
                /\ UNCHANGED fs
           ELSE IF placemark.point # <<>> /\ Len(placemark.point[1]) = 3
                    /\ float_raises(placemark.point[1][3])
           THEN /\ kz' \in Returns(KzCaught("ValueError"))
                /\ out' = Append(out, "Error: could not convert string to float")
                /\ pc' = "kmz_returned"
                /\ UNCHANGED fs
           ELSE /\ kz' = [kz EXCEPT !.i = @ + 1, !.rows = Append(@, csv_row(details))]
                /\ fs' = file_write(fs, kz.csv, 1)
                /\ UNCHANGED <<pc, out>>
    /\ UNCHANGED <<argv, args, listing, receiver, http, stack, file_urls, idx,
                   numberDownloads, processed, dl>>

\* The loop is over: the with statement closes the archive and parse_kmz returns.
\* Nothing closes csvfile.
KzDone ==
    /\ pc = "kmz_rows"
    /\ kz.i > Len(kz.placemarks)
    /\ kz' \in Returns([kz EXCEPT !.z = "closed"])
    /\ pc' = "kmz_returned"
    /\ UNCHANGED <<argv, args, listing, receiver, fs, http, out, stack, file_urls, idx,
                   numberDownloads, processed, dl>>

parse_kmz == KzOpen \/ KzParse \/ KzPlacemark \/ KzDone

----------------------------------------------------------------------------
(* Values of the variables a specification does not exercise *)

DefaultArgs ==
    [Format |-> "T0X", RINEX |-> "3.04", Max |-> <<>>, Recursive |-> FALSE,
     Clobber |-> FALSE, Quite |-> FALSE, NoRename |-> FALSE, ARP |-> 0]

DefaultArgv ==
    [Format |-> "T0X", RINEX |-> <<>>, Max |-> <<>>, Recursive |-> FALSE,
     Clobber |-> FALSE, Quite |-> FALSE, NoRename |-> FALSE, ARP |-> 0,
     isatty |-> TRUE]

----------------------------------------------------------------------------
(* The harvester on its own: every server of the bounded family, recursion on
   and off *)

MaxLinks == 2

\* all sequences over S of length at most n
RECURSIVE SeqsUpTo(_, _)
SeqsUpTo(S, n) ==
    IF n = 0 THEN {<<>>}
    ELSE LET shorter == SeqsUpTo(S, n - 1)
         IN  shorter \cup {Append(p, h) : p \in {q \in shorter : Len(q) = n - 1}, h \in S}

RootHrefs == {H_a, H_aq, H_rel, H_both, SubDir, H_parent, H_sub}
SubHrefs  == {H_c, SubSubDir, BaseDir}

RootPages   == SeqsUpTo(RootHrefs, MaxLinks) \cup {ExamplePage}
SubPages    == SeqsUpTo(SubHrefs, MaxLinks)
SubSubPages == {<<H_d>>}

\* The servers: the base directory and the sub-directory are listed, the
\* sub-sub-directory is listed or missing (its fetch then fails).
Servers ==
    {[d \in {BaseDir, SubDir, SubSubDir} |->
         IF d = BaseDir THEN r ELSE IF d = SubDir THEN s ELSE t]
       : r \in RootPages, s \in SubPages, t \in SubSubPages}
    \cup
    {[d \in {BaseDir, SubDir} |-> IF d = BaseDir THEN r ELSE s]
       : r \in RootPages, s \in SubPages}

InitHarvest ==
    /\ pc = "harvest"
    /\ argv = DefaultArgv
    /\ \E r \in BOOLEAN : args = [DefaultArgs EXCEPT !.Recursive = r]
    /\ listing \in Servers
    /\ receiver = Receiver(PlainReply, 1)
    /\ fs = <<>>
    /\ http = <<>>
    /\ out = <<>>
    /\ stack = <<Frame(BaseDir)>>
    /\ file_urls = <<>>
    /\ idx = 1
    /\ numberDownloads = 0
    /\ processed = <<>>
    /\ dl = DlIdle
    /\ kz = KzIdle

NextHarvest == HarvestGet \/ HarvestLink \/ HarvestReturn

SpecHarvest == InitHarvest /\ [][NextHarvest]_vars

\* The harvester runs in one thread that nothing suspends: a step that can be
\* taken is taken.
SpecHarvestFair == SpecHarvest /\ WF_vars(NextHarvest)

----------------------------------------------------------------------------
(* download_file on its own: one call, for every format, every setting of skip,
   progress and NoRename, every answer to the probe, and the files that may
   already be in the download directory *)

\* "--Output", default "./Downloads"
download_dir == <<"./Downloads">>

\* the paths one call for url may resolve to
PathsOf(url, outputFormat, RINEX) ==
    {default_filepath(outputFormat, RINEX, path_join(download_dir, AfterLastSlash(url))),
     filepath_from_header(download_dir, CD_quoted),
     filepath_from_header(download_dir, CD_bare)}

\* the file systems in which exactly the paths of P hold a file from before
OldFiles(P) == [q \in P |-> OldFile]

InitDownload ==
    /\ pc = "dl_entry"
    /\ argv = DefaultArgv
    /\ args = DefaultArgs
    /\ listing = <<>>
    /\ \E outputFormat \in GNSSFormat, RINEX \in {"2.11", "3.04"},
          skip \in BOOLEAN, progress \in BOOLEAN, NoRename \in BOOLEAN :
         \E P \in SUBSET PathsOf(H_a, outputFormat, RINEX) :
            /\ fs = OldFiles(P)
            /\ dl = DlCall(H_a, download_dir, outputFormat, RINEX, skip, progress,
                           NoRename, OldFiles(P))
    /\ \E head \in HeadReplies : receiver = Receiver(head, MaxChunks)
    /\ http = <<>>
    /\ out = <<>>
    /\ stack = <<>>
    /\ file_urls = <<>>
    /\ idx = 1
    /\ numberDownloads = 0
    /\ processed = <<>>
    /\ kz = KzIdle

NextDownload == download_file

SpecDownload == InitDownload /\ [][NextDownload]_vars

----------------------------------------------------------------------------
(* parse_kmz on its own: every archive of the bounded family *)

MaxPlacemarks == 3

Row(key, value) == [cells |-> 2, key |-> key, value |-> value]

\* attribute tables as the receiver writes them
T_sigma ==    \* the four-column sigma variant: Hgt twice
    <<[cells |-> 1, key |-> "Position", value |-> Text(0, <<>>)],
      Row("Time", Text(1000, <<" ", "s", "e", "c", "s">>)),
      Row("Hgt", Text(45200, <<"m">>)), Row("East", Text(10, <<"m">>)),
      Row("North", Text(12, <<"m">>)), Row("Hgt", Text(15, <<"m">>)),
      Row("Corr Age", Text(1200, <<"s">>)), Row("Name", Text(7, <<>>))>>
T_height ==   \* a height of 123.456m
    <<Row("Hgt", Text(123456, <<"m">>)), Row("Track", Text(9000, <<>>))>>
T_age ==      \* a correction age, and no east sigma
    <<Row("Hgt", Text(50000, <<"m">>)), Row("Corr Age", Text(1200, <<"s">>))>>
T_plain ==    \* no height at all
    <<Row("PDOP", Text(1500, <<>>))>>

\* the coordinates of a Point, split at the commas
XYZ == <<Text(-105000, <<>>), Text(39000, <<>>), Text(1600000, <<>>)>>
XY  == <<Text(-105000, <<>>), Text(39000, <<>>)>>

Placemark(description, point) == [description |-> description, point |-> point]

Placemarks ==
    {Placemark(<<>>, <<>>),             \* a line: no description
     Placemark(<<>>, <<XYZ>>),          \* a point without a description
     Placemark(<<T_sigma>>, <<XYZ>>),
     Placemark(<<T_height>>, <<>>),     \* a table and no Point
     Placemark(<<T_height>>, <<XY>>),   \* a table and two coordinates
     Placemark(<<T_plain>>, <<XYZ>>),
     Placemark(<<T_age>>, <<XYZ>>)}

doc_kml == <<"d", "o", "c">> \o kml
icon    == <<"i", ".", "p", "n", "g">>

Archive(zip, names, wellformed, placemarks) ==
    [zip |-> zip, names |-> names, wellformed |-> wellformed, placemarks |-> placemarks]

NotAZip    == Archive(FALSE, <<>>, FALSE, <<>>)
NoMarkup   == Archive(TRUE, <<icon>>, FALSE, <<>>)
BadMarkup  == Archive(TRUE, <<icon, doc_kml>>, FALSE, <<>>)
Decodable(placemarks) == Archive(TRUE, <<icon, doc_kml>>, TRUE, placemarks)

Archives ==
    {NotAZip, NoMarkup, BadMarkup}
    \cup {Decodable(p) : p \in SeqsUpTo(Placemarks, MaxPlacemarks)}

\* vertical offsets: 0.0 and 10.0
Offsets == {0, 10000}

kmz_path == <<"./Downloads", "/", "a", ".", "kmz">>

InitKmz ==
    /\ pc = "kmz_entry"
    /\ argv = DefaultArgv
    /\ args = DefaultArgs
    /\ listing = <<>>
    /\ receiver = Receiver(PlainReply, 1)
    /\ fs = OldFiles({kmz_path})
    /\ http = <<>>
    /\ out = <<>>
    /\ stack = <<>>
    /\ file_urls = <<>>
    /\ idx = 1
    /\ numberDownloads = 0
    /\ processed = <<>>
    /\ dl = DlIdle
    /\ \E archive \in Archives, ARP_Offset \in Offsets, save \in BOOLEAN :
          kz = KzCall(kmz_path, save, ARP_Offset, ~save, archive)

NextKmz == parse_kmz

SpecKmz == InitKmz /\ [][NextKmz]_vars

----------------------------------------------------------------------------
(* get_args and main *)

\* a slip: no choices for --RINEX
rinex_accepted_any(version) == TRUE

\* argparse: choices=allowed_versions
rinex_accepted(version) == version \in allowed_versions

\* get_args: argparse rejects a Format or a --RINEX that is not among the choices
\* (it prints the usage and exits); a --RINEX that is not given is "3.04", a --Max
\* that is not given is None (<<>>).
GetArgs ==
    /\ pc = "get_args"
    /\ IF argv.Format \in GNSSFormat
          /\ (argv.RINEX = <<>> \/ rinex_accepted(argv.RINEX[1]))
       THEN /\ args' = [Format |-> argv.Format,
                        RINEX |-> IF argv.RINEX = <<>> THEN "3.04" ELSE argv.RINEX[1],
                        Max |-> argv.Max, Recursive |-> argv.Recursive,
                        Clobber |-> argv.Clobber, Quite |-> argv.Quite,
                        NoRename |-> argv.NoRename, ARP |-> argv.ARP]
            /\ pc' = "main"
            /\ UNCHANGED out
       ELSE /\ pc' = "usage_error"
            /\ out' = Append(out, "usage: invalid choice")
            /\ UNCHANGED args
    /\ UNCHANGED <<argv, listing, receiver, fs, http, stack, file_urls, idx,
                   numberDownloads, processed, dl, kz>>

\* "progress = not args['Quite']", off when stdout is redirected
progress == ~args.Quite /\ argv.isatty

\* main, lines 385-406: the call of get_files_from_directory on the base directory
MainHarvest ==
    /\ pc = "main"
    /\ stack' = <<Frame(BaseDir)>>
    /\ pc' = "harvest"
    /\ UNCHANGED <<argv, args, listing, receiver, fs, http, out, file_urls, idx,
                   numberDownloads, processed, dl, kz>>

\* lines 408-412 and 454-455
MainFound ==
    /\ pc = "found"
    /\ idx' = 1
    /\ numberDownloads' = 0
    /\ IF file_urls # <<>>
       THEN /\ out' = Append(out, "Found file(s) to download.")
            /\ pc' = "loop"
       ELSE /\ out' = Append(out, "No .T02 or .T04 files found.")
            /\ pc' = "done"
    /\ UNCHANGED <<argv, args, listing, receiver, fs, http, stack, file_urls, processed, dl, kz>>

\* "if maxDownloads and (numberDownloads >= maxDownloads)": None and 0 are false
limitReached(maxDownloads, n) ==
    /\ maxDownloads # <<>>
    /\ maxDownloads[1] # 0
    /\ n >= maxDownloads[1]

\* lines 413-431: the head of the for loop, the limit test, and the call of
\* download_file for the next URL
MainNext ==
    /\ pc = "loop"
    /\ IF idx > Len(file_urls)
       THEN /\ pc' = "done"
            /\ UNCHANGED <<out, dl>>
       ELSE IF limitReached(args.Max, numberDownloads)
       THEN /\ out' = Append(out, "Max Downloads reached.")
            /\ pc' = "done"
            /\ UNCHANGED dl
       ELSE /\ dl' = DlCall(file_urls[idx], download_dir, args.Format, args.RINEX,
                            ~args.Clobber, progress, args.NoRename, fs)
            /\ pc' = "dl_entry"
            /\ UNCHANGED out
    /\ UNCHANGED <<argv, args, listing, receiver, fs, http, stack, file_urls, idx,
                   numberDownloads, processed, kz>>

\* lines 433-435: download_file raised; "Downloading aborted" and break
MainAborted ==
    /\ pc = "dl_raised"
    /\ out' = Append(out, "Downloading aborted")
    /\ dl' = DlIdle
    /\ pc' = "done"
    /\ UNCHANGED <<argv, args, listing, receiver, fs, http, stack, file_urls, idx,
                   numberDownloads, processed, kz>>

\* the archives a receiver may answer a KMZ-LinesPoints request with
ServedArchives ==
    {NotAZip, NoMarkup, BadMarkup, Decodable(<<Placemark(<<T_sigma>>, <<XYZ>>)>>)}

\* lines 436-453: download_file returned; for CSV the archive is converted unless
\* its CSV file is there and Clobber is off; numberDownloads += 1
MainDownloaded ==
    /\ pc = "dl_returned"
    /\ processed' = Append(processed, dl.url)
    /\ dl' = DlIdle
    /\ IF args.Format = "CSV" /\ (args.Clobber \/ ~isfile(dl.result \o <<".csv">>))
       THEN /\ \E archive \in ServedArchives :
                 kz' = KzCall(dl.result, FALSE, args.ARP, TRUE, archive)
            /\ pc' = "kmz_entry"
            /\ UNCHANGED <<idx, numberDownloads>>
       ELSE /\ numberDownloads' = numberDownloads + 1
            /\ idx' = idx + 1
            /\ pc' = "loop"
            /\ UNCHANGED kz
    /\ UNCHANGED <<argv, args, listing, receiver, fs, http, out, stack, file_urls>>

\* a slip: the loop left when parse_kmz reported a failure
MainConverted_breaks ==
    /\ pc = "kmz_returned"
    /\ kz' = KzIdle
    /\ numberDownloads' = numberDownloads + 1
    /\ idx' = idx + 1
    /\ pc' = IF kz.error = None THEN "loop" ELSE "done"
    /\ UNCHANGED <<argv, args, listing, receiver, fs, http, out, stack, file_urls, processed, dl>>

\* lines 449-453: parse_kmz returned; numberDownloads += 1
MainConverted ==
    /\ pc = "kmz_returned"
    /\ kz' = KzIdle
    /\ numberDownloads' = numberDownloads + 1
    /\ idx' = idx + 1
    /\ pc' = "loop"
    /\ UNCHANGED <<argv, args, listing, receiver, fs, http, out, stack, file_urls, processed, dl>>

----------------------------------------------------------------------------
(* The program: command lines, receivers and download directories *)

MaxFiles == 5

\* the k-th file of the base directory: /download/I/a.T02, /download/I/b.T04, ...
Letters == <<"a", "b", "c", "d", "e", "f", "g", "h">>
File(k) == BaseDir \o <<"/", Letters[k]>> \o (IF k % 2 = 1 THEN T02 ELSE T04)

\* a receiver with n files in its base directory
Flat(n) == [d \in {BaseDir} |-> [k \in 1..n |-> File(k)]]

\* a receiver with a sub-directory between its two files
Nested ==
    [d \in {BaseDir, SubDir} |-> IF d = BaseDir THEN <<File(1), SubDir, File(2)>> ELSE <<H_c>>]

\* a receiver that is not there
Unreachable == [d \in {} |-> <<>>]

\* the local path main's download of the k-th file goes to
LocalPath(k, outputFormat) ==
    default_filepath(outputFormat, "3.04", path_join(download_dir, AfterLastSlash(File(k))))

\* --Max: not given, or an integer
MaxValues == {<<>>, <<-1>>, <<0>>, <<1>>, <<2>>}

\* a receiver and --Recursive: flat with up to MaxFiles files, or nested
Harvests == {<<Flat(n), FALSE>> : n \in 0..MaxFiles} \cup {<<Nested, r>> : r \in BOOLEAN}

\* Runs that exercise the download limit: T0X, every --Max, with and without
\* --Clobber, every receiver of Harvests, and a download directory that may hold
\* the first or the second file already.
InitLimits ==
    /\ \E m \in MaxValues, c \in BOOLEAN, h \in Harvests :
          /\ argv = [DefaultArgv EXCEPT !.Max = m, !.Clobber = c, !.Recursive = h[2],
                                        !.isatty = FALSE]
          /\ listing = h[1]
    /\ \E P \in {{}, {1}, {2}} : fs = OldFiles({LocalPath(k, "T0X") : k \in P})
    /\ receiver = Receiver(PlainReply, 1)

\* Runs that convert: CSV, one or two files on the receiver, with and without a
\* limit and --Clobber, and a download directory that may hold the first archive,
\* or the first archive and its CSV file.
InitConvert ==
    /\ \E m \in {<<>>, <<1>>}, c \in BOOLEAN :
          argv = [DefaultArgv EXCEPT !.Format = "CSV", !.Max = m, !.Clobber = c,
                                     !.isatty = FALSE]
    /\ listing \in {Flat(1), Flat(2)}
    /\ fs \in {OldFiles({}), OldFiles({LocalPath(1, "CSV")}),
               OldFiles({LocalPath(1, "CSV"), LocalPath(1, "CSV") \o <<".csv">>})}
    /\ receiver = Receiver(PlainReply, 1)

\* Runs that exercise the formats and the RINEX versions: every format (and one
\* that is none), --RINEX not given, given and allowed, given and not allowed,
\* with and without --NoRename and a terminal, every answer to the probe, one
\* file on the receiver or no receiver.
InitVersions ==
    /\ \E outputFormat \in GNSSFormat \cup {"XYZ"},
          v \in {<<>>, <<"2.11">>, <<"3.04">>, <<"3.05">>, <<"4">>},
          n \in BOOLEAN, t \in BOOLEAN :
          argv = [DefaultArgv EXCEPT !.Format = outputFormat, !.RINEX = v,
                                     !.NoRename = n, !.isatty = t, !.Max = <<1>>,
                                     !.ARP = 10000]
    /\ listing \in {Flat(1), Unreachable}
    /\ fs = <<>>
    /\ \E head \in HeadReplies : receiver = Receiver(head, 1)

Init ==
    /\ pc = "get_args"
    /\ InitLimits \/ InitConvert \/ InitVersions
    /\ args = DefaultArgs
    /\ http = <<>>
    /\ out = <<>>
    /\ stack = <<>>
    /\ file_urls = <<>>
    /\ idx = 1
    /\ numberDownloads = 0
    /\ processed = <<>>
    /\ dl = DlIdle
    /\ kz = KzIdle

Next ==
    \/ GetArgs \/ MainHarvest
    \/ HarvestGet \/ HarvestLink \/ HarvestReturn
    \/ MainFound \/ MainNext \/ MainAborted \/ MainDownloaded \/ MainConverted
    \/ download_file
    \/ parse_kmz

Spec == Init /\ [][Next]_vars

----------------------------------------------------------------------------
(* Claims about the harvester *)

EndsInTrackedExtension(h) == EndsWith(h, T02) \/ EndsWith(h, T04)

\* The links of the base page that end in .T02 or .T04, in page order, each
\* resolved against the base directory.
TrackedOfBasePage ==
    LET t == SelectSeq(listing[BaseDir], EndsInTrackedExtension)
    IN  [k \in 1..Len(t) |-> urljoin(BaseDir, t[k])]

\* C5: with recursion disabled, the harvester fetches exactly one listing page and
\* returns exactly the links whose href ends in .T02 or .T04, in page order, each
\* resolved against the directory URL; computed variants, sub-directory links and
\* parent or self links contribute nothing, and the page
\* ["a.T02", "a.T02?format=x", "sub/", "../"] yields exactly the one file a.T02.
C5_NonRecursiveHarvest ==
    (pc = "found" /\ ~args.Recursive) =>
        /\ file_urls = TrackedOfBasePage
        /\ http = <<[method |-> "GET", url |-> server \o BaseDir]>>
        /\ listing[BaseDir] = ExamplePage => file_urls = <<urljoin(BaseDir, H_rel)>>

\* C5 witness: the example page was harvested without recursion, and gave one file.
C5_Witness ==
    /\ pc = "found"
    /\ ~args.Recursive
    /\ listing[BaseDir] = ExamplePage
    /\ Len(file_urls) = 1

\* What the links k.. of the page of dir contribute, depth-first in page order: a
\* tracked link itself, a computed or a parent or self link nothing, any other
\* link the whole contribution of the page it names.
RECURSIVE Contribution(_, _)
Contribution(dir, k) ==
    IF dir \notin DOMAIN listing \/ k > Len(listing[dir]) THEN <<>>
    ELSE LET h == listing[dir][k]
             own == IF EndsInTrackedExtension(h) THEN <<urljoin(dir, h)>>
                    ELSE IF Contains(h, T02 \o <<"?">>) \/ Contains(h, T04 \o <<"?">>)
                         THEN <<>>
                    ELSE IF Len(h) <= Len(dir) THEN <<>>
                    ELSE Contribution(h, 1)
         IN  own \o Contribution(dir, k + 1)

\* C10: with recursion enabled the returned sequence follows page-link order
\* depth-first: a tracked link contributes itself, and every link that is neither
\* tracked, nor computed, nor a parent or self link is entered as a sub-directory
\* whose complete result stands at that link's position, before anything that the
\* later links of the same page contribute.
C10_DepthFirstOrder ==
    (pc = "found" /\ args.Recursive) => file_urls = Contribution(BaseDir, 1)

\* C10 witness: a recursive harvest returned a file of the sub-directory before a
\* file of the base page that is linked after the sub-directory.
C10_Witness ==
    /\ pc = "found"
    /\ args.Recursive
    /\ file_urls = <<H_c, H_a>>

----------------------------------------------------------------------------
(* Claims about download_file *)

HeadRequests == SelectSeq(http, LAMBDA r : r.method = "HEAD")
GetRequests  == SelectSeq(http, LAMBDA r : r.method = "GET")

\* C1: when the GET succeeded and an exception (cancellation included) is raised
\* while the body is written chunk by chunk, with progress on or off, no file
\* exists at the resolved path when the call gives control back, and the exception
\* propagates to the caller.
C1_NoPartialFileAfterWriteFailure ==
    (pc = "dl_raised" /\ dl.where = "write") =>
        /\ ~isfile(dl.filepath)
        /\ dl.exc \in {"ChunkedEncodingError", "OSError", "KeyboardInterrupt"}
        /\ dl.file = "closed"

\* C1 witness: with progress on, the stream was cancelled after a chunk had been
\* written over a file that was there before.
C1_Witness ==
    /\ pc = "dl_raised"
    /\ dl.where = "write"
    /\ dl.exc = "KeyboardInterrupt"
    /\ dl.progress
    /\ dl.chunks >= 1
    /\ dl.filepath \in DOMAIN dl.fs0

\* C2: whatever way download_file raises after it has opened the target file for
\* writing (an exception in the write loop, cancellation, or the byte-count
\* mismatch raised after the loop), the file does not exist afterwards.
C2_NoPartialFileAfterAnyFailure ==
    (pc = "dl_raised" /\ dl.file # "none") => ~isfile(dl.filepath)

\* the call found skip set and a file at the resolved path
SkipCase == pc \notin {"dl_entry", "dl_raised"} /\ dl.skip /\ dl.filepath \in DOMAIN dl.fs0

\* C3 as stated: with skip set and a file at the resolved path, for every format
\* and every NoRename, the call issues no network request of any kind, leaves the
\* file unchanged and returns the resolved path.
C3_NoRequestAtAll ==
    (pc = "dl_returned" /\ dl.skip /\ dl.filepath \in DOMAIN dl.fs0) =>
        /\ http = <<>>
        /\ fs = dl.fs0
        /\ dl.result = dl.filepath

\* C3 amended: with skip set and a file at the resolved path, the call issues no
\* GET, leaves the file system unchanged and returns the resolved path; the only
\* request it issues is the HEAD probe that resolves the name, which is sent
\* exactly for a RINEX-family format with NoRename off.
C3_NoFetchWhenSkipping ==
    SkipCase =>
        /\ pc \in {"dl_check", "dl_returned"}
        /\ GetRequests = <<>>
        /\ Len(HeadRequests) =
              (IF dl.outputFormat \in RinexFamily /\ ~dl.NoRename THEN 1 ELSE 0)
        /\ fs = dl.fs0
        /\ pc = "dl_returned" => dl.result = dl.filepath

\* C3 witness: a skipped RINEX download whose name came from the server.
C3_Witness ==
    /\ pc = "dl_returned"
    /\ dl.skip
    /\ dl.outputFormat = "RINEX"
    /\ dl.filepath = filepath_from_header(download_dir, CD_quoted)
    /\ dl.filepath \in DOMAIN dl.fs0
    /\ Len(http) = 1

ArchiveFormats == {"KML", "KMP"}

\* C7 as stated: for KML and KMP the local path is the name of the server's
\* Content-Disposition header whenever the server supplies one, whatever NoRename.
C7_ServerNamingForArchives ==
    (pc = "dl_returned" /\ dl.outputFormat \in ArchiveFormats /\ receiver.head.status = "200"
        /\ receiver.head.cd # <<>>) =>
        dl.result = filepath_from_header(dl.download_dir, receiver.head.cd[1])

\* C7 amended: for KML and KMP download_file never asks the server for a name,
\* whatever NoRename: no HEAD probe is sent and the local path is the default
\* derived from the URL (its last three characters replaced by "lines.kmz" for
\* KML and by "kmz" for KMP).
C7_DefaultNamingForArchives ==
    (pc # "dl_entry" /\ dl.outputFormat \in ArchiveFormats) =>
        /\ HeadRequests = <<>>
        /\ dl.filepath =
              path_join(dl.download_dir, <<"a", ".">>)
                 \o (IF dl.outputFormat = "KML" THEN <<"lines.kmz">> ELSE <<"kmz">>)

\* C7 witness: a KMP download returned the default name although the caller asked
\* for renaming and the server offers a name.
C7_Witness ==
    /\ pc = "dl_returned"
    /\ dl.outputFormat = "KMP"
    /\ ~dl.NoRename
    /\ receiver.head.cd = <<CD_quoted>>
    /\ dl.chunks >= 1
    /\ dl.result = <<"./Downloads", "/", "a", ".", "kmz">>

----------------------------------------------------------------------------
(* Claims about parse_kmz *)

\* the positions of the placemarks that have a description, in document order
RECURSIVE DescribedFrom(_, _)
DescribedFrom(placemarks, k) ==
    IF k > Len(placemarks) THEN <<>>
    ELSE (IF placemarks[k].description # <<>> THEN <<k>> ELSE <<>>)
            \o DescribedFrom(placemarks, k + 1)

Described == DescribedFrom(kz.archive.placemarks, 1)

HasMarkup == kz.archive.zip /\ kz.archive.wellformed

\* C8: for an archive whose markup document holds N placemarks with a description
\* and M without, parse_kmz writes exactly N data rows, whatever the attribute
\* tables hold, and reads the markup document from the archive at most once.
C8_OneRowPerDescribedPlacemark ==
    /\ kz.reads <= 1
    /\ (pc = "kmz_returned" /\ HasMarkup) => Len(kz.rows) = Len(Described)

\* the height of the k-th placemark as a number: the third coordinate when the
\* Point has three, else the first Hgt row of the table
HeightOf(placemark) ==
    IF placemark.point # <<>> /\ Len(placemark.point[1]) = 3
    THEN placemark.point[1][3].num
    ELSE LET hgt == SelectSeq(placemark.description[1],
                              LAMBDA row : row.cells = 2 /\ row.key = "Hgt")
         IN  hgt[1].value.num

\* C9: in every row written, a non-empty Hgt cell holds the numeric height with
\* the vertical offset subtracted, whether the height came from the attribute
\* table or from the coordinates.
C9_HeightHasOffsetSubtracted ==
    \A j \in 1..Len(kz.rows) :
        kz.rows[j]["Hgt"] # <<>> =>
            kz.rows[j]["Hgt"][1] =
                Text(HeightOf(kz.archive.placemarks[Described[j]]) - kz.ARP_Offset, <<>>)

----------------------------------------------------------------------------
(* Claims about the program *)

Reported(message) == \E k \in 1..Len(out) : out[k] = message

\* the first n elements of s (none for n <= 0)
FirstN(s, n) == SubSeq(s, 1, n)

\* C4: for a run with --Max m and a harvest of n > m file URLs, the main loop
\* downloads exactly the first m files in harvester order, none after them, and
\* reports that the limit was reached, for every m the command line accepts and
\* whether or not target files are already on disk.  (Stated for the runs in
\* which the harvest found files and no download raises; a file that is skipped
\* because it is on disk counts as downloaded, as it does for numberDownloads.)
C4_MaxLimitsDownloads ==
    (/\ pc = "done"
     /\ args.Max # <<>>
     /\ file_urls # <<>>
     /\ Len(file_urls) > args.Max[1]
     /\ ~Reported("Downloading aborted")) =>
        /\ processed = FirstN(file_urls, args.Max[1])
        /\ Reported("Max Downloads reached.")

\* the --RINEX given is none of the allowed versions
VersionNotAllowed ==
    /\ argv.RINEX # <<>>
    /\ argv.RINEX[1] \notin {"2.11", "2.12", "3.00", "3.02", "3.03", "3.04"}

\* C6 as stated: for a RINEX-family format, a run whose RINEX version is missing
\* or not allowed fails with a configuration error and issues no HTTP request.
C6_MissingOrBadVersionFails ==
    (argv.Format \in RinexFamily /\ (argv.RINEX = <<>> \/ VersionNotAllowed)) =>
        /\ http = <<>>
        /\ pc \in {"get_args", "usage_error"}

\* the requests for a file carry Ver=3.04
AllWithDefaultVersion ==
    \A k \in 1..Len(http) :
        Contains(http[k].url, T02) \/ Contains(http[k].url, T04) =>
            http[k].url[Len(http[k].url)] = "3.04"

\* C6 amended: a --RINEX outside the allowed set is rejected by get_args before
\* any HTTP request, for every format; a --RINEX that is not given is no error: it
\* is 3.04, and for a RINEX-family format the run goes on to request the files
\* with Ver=3.04.
C6_BadVersionFailsMissingDefaults ==
    /\ VersionNotAllowed => (http = <<>> /\ pc \in {"get_args", "usage_error"})
    /\ (argv.RINEX = <<>> /\ argv.Format \in RinexFamily /\ pc # "get_args") =>
          /\ pc # "usage_error"
          /\ args.RINEX = "3.04"
          /\ AllWithDefaultVersion

\* C6 witness: --RINEX 3.05 with format RINEX ended in the usage error.
C6_Witness ==
    /\ pc = "usage_error"
    /\ argv.Format = "RINEX"
    /\ argv.RINEX = <<"3.05">>
    /\ http = <<>>

\* the CSV file main's conversion of the archive of url goes to
csv_of(url) ==
    default_filepath("CSV", args.RINEX, path_join(download_dir, AfterLastSlash(url)))
        \o <<".csv">>

\* the reports of an archive that could not be opened: not a zip container, or no
\* .kml entry in it
ArchiveErrors == {"The file is not a valid KMZ.", "Error: No KML file found in the KMZ."}

ArchiveErrorsReported == {k \in 1..Len(out) : out[k] \in ArchiveErrors}

\* the positions of processed whose archive parse_kmz was called on and made no
\* CSV file for: there is none, or the one from before the run is still there
\* although --Clobber asked for a new one
NoCsvMade ==
    {k \in 1..Len(processed) :
        \/ ~isfile(csv_of(processed[k]))
        \/ args.Clobber /\ fs[csv_of(processed[k])].by = "before"}

\* the files the loop is to process: all of them, or the first --Max of them
UpToMax ==
    IF args.Max = <<>> \/ args.Max[1] = 0 THEN file_urls
    ELSE FirstN(file_urls, args.Max[1])

\* C11: in a CSV run, an archive that is no zip container or holds no .kml entry
\* is reported for that file and the loop goes on: when the run is over every
\* harvested file up to --Max was handed to download_file, and parse_kmz was
\* called on every one whose CSV file was due, so that each of them has its CSV
\* file or its own report.  (Stated for the runs in which no download raises.)
C11_DecodeFailureDoesNotStopTheLoop ==
    /\ (pc = "kmz_returned" /\ kz.archive \in {NotAZip, NoMarkup}) =>
           out[Len(out)] \in ArchiveErrors
    /\ (pc = "done" /\ args.Format = "CSV" /\ ~Reported("Downloading aborted")) =>
           /\ processed = UpToMax
           /\ Cardinality(NoCsvMade) = Cardinality(ArchiveErrorsReported)

\* the first archive is not a zip container and the second one was converted
C11_Witness ==
    /\ pc = "done"
    /\ args.Format = "CSV"
    /\ Len(processed) = 2
    /\ Reported("The file is not a valid KMZ.")
    /\ NoCsvMade = {1}
    /\ isfile(csv_of(processed[2]))
    /\ fs[csv_of(processed[2])] = [by |-> "parse_kmz", size |-> 1]

----------------------------------------------------------------------------
(* Claims about file handles *)

\* a handle that was never opened, or is closed
Closed(handle) == handle \in {"none", "closed", "finalized"}

\* C12: every file handle the core opens (the archive, the output CSV, the file
\* being downloaded) is closed on every exit path of the operation that opened
\* it: when download_file has returned or raised its file is closed, and when
\* parse_kmz has returned, after the last placemark or after a failure, the
\* archive and the output CSV are closed.
C12_HandlesClosedOnEveryExit ==
    /\ pc \in {"dl_returned", "dl_raised"} => Closed(dl.file)
    /\ pc = "kmz_returned" => Closed(kz.z) /\ Closed(kz.csvfile)

----------------------------------------------------------------------------
(* Claims about the recursion of the harvester *)

\* every active call has a directory_url strictly longer than its caller's
StrictlyLongerThanCaller ==
    \A i \in 1..(Len(stack) - 1) : Len(stack[i + 1].dir) > Len(stack[i].dir)

\* no directory_url is that of two active calls
NoDirectoryTwiceOnPath ==
    \A i, j \in 1..Len(stack) : stack[i].dir = stack[j].dir => i = j

\* get_files_from_directory has returned to main, or has raised SystemExit
HarvestOver == pc \in {"found", "exit"}

\* C13: in a recursive harvest each nested call of get_files_from_directory has a
\* directory URL strictly longer than its caller's, so no directory URL occurs
\* twice on one recursion path, and on a server with finite pages over a finite
\* set of hrefs the harvest comes to an end, also when the pages link to each
\* other in a cycle.
C13_HarvestTerminates ==
    /\ [](StrictlyLongerThanCaller /\ NoDirectoryTwiceOnPath)
    /\ <>HarvestOver

\* a recursive harvest is over on a server whose sub-directory links back to the
\* base directory and is linked twice from it: it was listed twice, and its file
\* returned twice
C13_Witness ==
    /\ pc = "found"
    /\ args.Recursive
    /\ listing[BaseDir] = <<SubDir, SubDir>>
    /\ listing[SubDir] = <<H_c, BaseDir>>
    /\ file_urls = <<H_c, H_c>>
    /\ Len(http) = 3

====
